---------------------------- MODULE Spec2Model ----------------------------
(* A model of src/book_review_reddit_app.py: the thread locator            *)
(* (get_reddit_urls), the comment extractor (extract_comments), the        *)
(* renderer's dispatch (display_comments) and the main loop that composes  *)
(* them.  Python strings are sequences of one-character strings, Python    *)
(* values of unknown type are tagged records, and an operation that may    *)
(* raise yields either a value or the class of the exception raised.       *)
EXTENDS Integers, Sequences, FiniteSets, TLC

VARIABLES pc, book_name, provider, reddit_urls, notices, idx, response,
          max_comments, comments, calls, shown

vars == <<pc, book_name, provider, reddit_urls, notices, idx, response,
          max_comments, comments, calls, shown>>

(***************************************************************************)
(* Bounds of the model.                                                    *)
(***************************************************************************)
MaxResults == 2      \* organic results in one provider payload
MaxChildren == 2     \* entries of data[1]["data"]["children"]
MaxWant == 2         \* largest max_comments passed to extract_comments
MaxThreads == 2      \* organic results in a payload of the main run

(***************************************************************************)
(* Program constants.                                                      *)
(***************************************************************************)
MinBodyLen == 30         \* len(body) > 30
MaxBodyLen == 800        \* body[:800], len(body) > 800
DefaultMaxComments == 10 \* extract_comments(url, max_comments=10)
DefaultScore == 0        \* comment_data.get("score", 0)

(***************************************************************************)
(* Python str: substring test, split(sep)[0], lower().                     *)
(***************************************************************************)
Chars(n, c) == [i \in 1..n |-> c]

\* sub in s
Contains(sub, s) ==
    \E i \in 0..(Len(s) - Len(sub)) : SubSeq(s, i + 1, i + Len(sub)) = sub

\* s.split(c)[0]: the text before the first occurrence of c, all of s when
\* c does not occur
SplitFirst(s, c) ==
    IF \E i \in 1..Len(s) : s[i] = c
    THEN LET first == CHOOSE i \in 1..Len(s) :
                          s[i] = c /\ \A j \in 1..(i - 1) : s[j] # c
         IN  SubSeq(s, 1, first - 1)
    ELSE s

LowerChar(c) ==
    CASE c = "A" -> "a" [] c = "B" -> "b" [] c = "C" -> "c" [] c = "D" -> "d"
      [] c = "E" -> "e" [] c = "F" -> "f" [] c = "G" -> "g" [] c = "H" -> "h"
      [] c = "I" -> "i" [] c = "J" -> "j" [] c = "K" -> "k" [] c = "L" -> "l"
      [] c = "M" -> "m" [] c = "N" -> "n" [] c = "O" -> "o" [] c = "P" -> "p"
      [] c = "Q" -> "q" [] c = "R" -> "r" [] c = "S" -> "s" [] c = "T" -> "t"
      [] c = "U" -> "u" [] c = "V" -> "v" [] c = "W" -> "w" [] c = "X" -> "x"
      [] c = "Y" -> "y" [] c = "Z" -> "z" [] OTHER -> c

Lower(s) == [i \in 1..Len(s) |-> LowerChar(s[i])]

(***************************************************************************)
(* String literals of the program.                                         *)
(***************************************************************************)
NamespaceMarker == <<"r", "e", "d", "d", "i", "t", ".", "c", "o", "m", "/", "r", "/">>
ThreadMarker == <<"/", "c", "o", "m", "m", "e", "n", "t", "s", "/">>
JsonSuffix == <<".", "j", "s", "o", "n">>
DeletedBody == <<"[", "d", "e", "l", "e", "t", "e", "d", "]">>
RemovedBody == <<"[", "r", "e", "m", "o", "v", "e", "d", "]">>
Ellipsis == <<".", ".", ".">>
ErrorWord == <<"e", "r", "r", "o", "r">>
UnknownAuthor == <<"U", "n", "k", "n", "o", "w", "n">>
MsgBadFormat == <<"I", "n", "v", "a", "l", "i", "d", " ", "r", "e", "s", "p", "o", "n", "s", "e", " ", "f", "o", "r", "m", "a", "t", " ", "-", " ", "n", "o", "t", " ", "a", " ", "l", "i", "s", "t", " ", "o", "r", " ", "t", "o", "o", " ", "s", "h", "o", "r", "t">>
MsgBadThread == <<"I", "n", "v", "a", "l", "i", "d", " ", "t", "h", "r", "e", "a", "d", " ", "s", "t", "r", "u", "c", "t", "u", "r", "e", " ", "-", " ", "m", "i", "s", "s", "i", "n", "g", " ", "d", "a", "t", "a", " ", "o", "r", " ", "c", "h", "i", "l", "d", "r", "e", "n">>
MsgNetwork == <<"N", "e", "t", "w", "o", "r", "k", " ", "e", "r", "r", "o", "r", " ", "a", "c", "c", "e", "s", "s", "i", "n", "g", " ">>
MsgJson == <<"J", "S", "O", "N", " ", "p", "a", "r", "s", "i", "n", "g", " ", "e", "r", "r", "o", "r", ":", " ">>
MsgUnexpected == <<"U", "n", "e", "x", "p", "e", "c", "t", "e", "d", " ", "e", "r", "r", "o", "r", ":", " ">>
ColonSpace == <<":", " ">>

(***************************************************************************)
(* Python values whose type the program does not control (the decoded     *)
(* JSON of a thread, the fields of a search result).                       *)
(***************************************************************************)
PyNone == [t |-> "none"]
PyNum(n) == [t |-> "num", n |-> n]
PyStr(s) == [t |-> "str", s |-> s]
PyList(items) == [t |-> "list", items |-> items]
PyDict(d) == [t |-> "dict", d |-> d]

KData == <<"d", "a", "t", "a">>
KChildren == <<"c", "h", "i", "l", "d", "r", "e", "n">>
KKind == <<"k", "i", "n", "d">>
KBody == <<"b", "o", "d", "y">>
KAuthor == <<"a", "u", "t", "h", "o", "r">>
KScore == <<"s", "c", "o", "r", "e">>
KLink == <<"l", "i", "n", "k">>
KTitle == <<"t", "i", "t", "l", "e">>

EmptyDict == PyDict([k \in {} |-> PyNone])

\* k in v, for a str k: "yes", "no", or "TypeError" when v is not a container
PyContains(k, v) ==
    CASE v.t = "dict" -> IF k \in DOMAIN v.d THEN "yes" ELSE "no"
      [] v.t = "list" ->
            IF \E i \in 1..Len(v.items) : v.items[i] = PyStr(k)
            THEN "yes" ELSE "no"
      [] v.t = "str" -> IF Contains(k, v.s) THEN "yes" ELSE "no"
      [] OTHER -> "TypeError"

\* bool(v)
PyTruthy(v) ==
    CASE v.t = "none" -> FALSE
      [] v.t = "num" -> v.n # 0
      [] v.t = "str" -> Len(v.s) > 0
      [] v.t = "list" -> Len(v.items) > 0
      [] v.t = "dict" -> DOMAIN v.d # {}

\* v.get(k, default) of a dict v
PyGet(v, k, default) == IF k \in DOMAIN v.d THEN v.d[k] ELSE default

(***************************************************************************)
(* get_reddit_urls: one provider call, then the filter over the organic    *)
(* results.  A provider call is [raises, results]: GoogleSearch(...)       *)
(* .get_dict() either raises or returns the dict results.                  *)
(***************************************************************************)
KError == <<"e", "r", "r", "o", "r">>
KOrganic == <<"o", "r", "g", "a", "n", "i", "c", "_", "r", "e", "s", "u", "l", "t", "s">>

\* link.split("?")[0].split("#")[0]
CleanUrl(link) == SplitFirst(SplitFirst(link, "?"), "#")

\* the filter of one result: "reddit.com/r/" in link and "/comments/" in link,
\* after the truth test of link; "TypeError" when link is not a container
LinkFilter(link) ==
    IF ~PyTruthy(link) THEN "no"
    ELSE IF PyContains(NamespaceMarker, link) # "yes"
         THEN PyContains(NamespaceMarker, link)
         ELSE PyContains(ThreadMarker, link)

\* the for loop over organic_results; exc is TRUE when an iteration raises
RECURSIVE LinkLoop(_, _, _)
LinkLoop(organic_results, i, urls) ==
    IF i > Len(organic_results) THEN [exc |-> FALSE, urls |-> urls]
    ELSE LET result == organic_results[i] IN
         IF result.t # "dict" THEN [exc |-> TRUE, urls |-> <<>>]
         ELSE LET link == PyGet(result, KLink, PyNone)
                  title == PyGet(result, KTitle, PyStr(<<>>))
              IN  CASE LinkFilter(link) = "TypeError" ->
                          [exc |-> TRUE, urls |-> <<>>]
                    [] LinkFilter(link) = "no" ->
                          LinkLoop(organic_results, i + 1, urls)
                    [] OTHER ->
                          IF link.t # "str" THEN [exc |-> TRUE, urls |-> <<>>]
                          ELSE LinkLoop(organic_results, i + 1,
                                   Append(urls, [url |-> CleanUrl(link.s),
                                                 title |-> title]))

\* the function without its test of the error field
get_reddit_urls_IgnoresError(call) ==
    IF call.raises
    THEN [urls |-> <<>>, notice |-> "search_exception"]
    ELSE LET organic_results == PyGet(call.results, KOrganic, PyList(<<>>))
             looped == LinkLoop(organic_results.items, 1, <<>>)
         IN  IF looped.exc
             THEN [urls |-> <<>>, notice |-> "search_exception"]
             ELSE [urls |-> looped.urls, notice |-> "none"]

\* the whole function: the list returned and the st.error notice raised
get_reddit_urls(call) ==
    IF call.raises
    THEN [urls |-> <<>>, notice |-> "search_exception"]
    ELSE IF PyContains(KError, call.results) = "yes"
    THEN [urls |-> <<>>, notice |-> "api_error"]
    ELSE LET organic_results == PyGet(call.results, KOrganic, PyList(<<>>))
             looped == LinkLoop(organic_results.items, 1, <<>>)
         IN  IF looped.exc
             THEN [urls |-> <<>>, notice |-> "search_exception"]
             ELSE [urls |-> looped.urls, notice |-> "none"]

(***************************************************************************)
(* Provider payloads the locator is run on.                                *)
(***************************************************************************)
ThreadLink == <<"h", "t", "t", "p", "s", ":", "/", "/", "r", "e", "d", "d", "i", "t", ".", "c", "o", "m", "/", "r", "/", "b", "/", "c", "o", "m", "m", "e", "n", "t", "s", "/", "1", "/", "t">>
OtherThreadLink == <<"h", "t", "t", "p", "s", ":", "/", "/", "r", "e", "d", "d", "i", "t", ".", "c", "o", "m", "/", "r", "/", "b", "/", "c", "o", "m", "m", "e", "n", "t", "s", "/", "2", "/", "u">>
HomeLink == <<"h", "t", "t", "p", "s", ":", "/", "/", "r", "e", "d", "d", "i", "t", ".", "c", "o", "m", "/", "r", "/", "b", "/">>
ForeignLink == <<"h", "t", "t", "p", "s", ":", "/", "/", "g", ".", "c", "o", "/", "?", "q", "=", "r", "e", "d", "d", "i", "t", ".", "c", "o", "m", "/", "r", "/", "b", "/", "c", "o", "m", "m", "e", "n", "t", "s", "/", "1">>
QuerySuffix == <<"?", "s", "=", "1">>
FragSuffix == <<"#", "c">>
TitleA == <<"A">>
TitleB == <<"B">>

SearchResult(link, title) == PyDict((KLink :> link) @@ (KTitle :> PyStr(title)))

ThreadResults ==
    { SearchResult(PyStr(ThreadLink), TitleA),
      SearchResult(PyStr(ThreadLink \o QuerySuffix), TitleB),
      SearchResult(PyStr(ThreadLink \o FragSuffix), TitleA),
      SearchResult(PyStr(OtherThreadLink \o QuerySuffix \o FragSuffix), TitleB) }

OtherResults ==
    { SearchResult(PyStr(HomeLink), TitleA),
      SearchResult(PyStr(ForeignLink), TitleB),
      PyDict(KTitle :> PyStr(TitleA)),
      SearchResult(PyNum(7), TitleA) }

SeqsUpTo(S, n) == UNION { [1..k -> S] : k \in 0..n }

ProviderCalls(results, n) ==
    { [raises |-> TRUE, results |-> EmptyDict] }
    \cup { [raises |-> FALSE,
            results |-> PyDict((KError :> PyStr(TitleA))
                               @@ (KOrganic :> PyList(o)))] :
           o \in SeqsUpTo(results, n) }
    \cup { [raises |-> FALSE, results |-> PyDict(KOrganic :> PyList(o))] :
           o \in SeqsUpTo(results, n) }
    \cup { [raises |-> FALSE, results |-> EmptyDict] }

NoCall == [raises |-> FALSE, results |-> EmptyDict]
NoResponse == [transport |-> "none"]

(***************************************************************************)
(* The locator on its own: one call of get_reddit_urls per behaviour.      *)
(***************************************************************************)
InitLocate ==
    /\ pc = "locate"
    /\ book_name = TitleA
    /\ provider \in ProviderCalls(ThreadResults \cup OtherResults, MaxResults)
    /\ reddit_urls = <<>>
    /\ notices = <<>>
    /\ idx = 0
    /\ response = NoResponse
    /\ max_comments = DefaultMaxComments
    /\ comments = <<>>
    /\ calls = <<>>
    /\ shown = <<>>

Locate ==
    /\ pc = "locate"
    /\ pc' = "located"
    /\ reddit_urls' = get_reddit_urls(provider).urls
    /\ notices' = IF get_reddit_urls(provider).notice = "none" THEN notices
                  ELSE Append(notices, get_reddit_urls(provider).notice)
    /\ UNCHANGED <<book_name, provider, idx, response, max_comments, comments,
                   calls, shown>>

NextLocate == Locate

SpecLocate == InitLocate /\ [][NextLocate]_vars

(***************************************************************************)
(* extract_comments.  A thread fetch is a response record:                 *)
(*   [transport |-> "fail", text]           requests.get raises            *)
(*   [transport |-> "ok", status, parsed |-> FALSE, errclass, text]        *)
(*                                          response.json() raises         *)
(*   [transport |-> "ok", status, parsed |-> TRUE, data]                   *)
(* The body of the try block yields either the list to return or the       *)
(* class and text of the exception it raises.                              *)
(***************************************************************************)
TxtTimeout == <<"t", "i", "m", "e", "d", " ", "o", "u", "t">>
TxtStatus == <<"4", "0", "4", " ", "C", "l", "i", "e", "n", "t", " ", "E", "r", "r", "o", "r">>
TxtDecode == <<"E", "x", "p", "e", "c", "t", "i", "n", "g", " ", "v", "a", "l", "u", "e">>
TxtType == <<"b", "a", "d", " ", "t", "y", "p", "e">>

Return(value) == [exc |-> "none", value |-> value]
Raise(class, text) == [exc |-> class, text |-> text]

\* v[k]: defined for a dict holding k; anything else raises
CanIndex(v, k) == v.t = "dict" /\ k \in DOMAIN v.d

\* len(v) is defined
HasLen(v) == v.t \in {"str", "list", "dict"}

PyLen(v) ==
    CASE v.t = "str" -> Len(v.s)
      [] v.t = "list" -> Len(v.items)
      [] v.t = "dict" -> Cardinality(DOMAIN v.d)

RECURSIVE KeySeq(_)
KeySeq(S) ==
    IF S = {} THEN <<>>
    ELSE LET k == CHOOSE x \in S : TRUE IN <<PyStr(k)>> \o KeySeq(S \ {k})

\* iter(v) is defined
CanIter(v) == v.t \in {"str", "list", "dict"}

\* the items a for loop over v visits: the items of a list, the characters
\* of a str, the keys of a dict (the dicts iterated here hold at most one key)
PyIter(v) ==
    CASE v.t = "list" -> v.items
      [] v.t = "str" -> [i \in 1..Len(v.s) |-> PyStr(<<v.s[i]>>)]
      [] v.t = "dict" -> KeySeq(DOMAIN v.d)

\* the cut taken at the limit instead of above it
DisplayBody_CutsAtLimit(body) ==
    IF Len(body) >= MaxBodyLen
    THEN SubSeq(body, 1, MaxBodyLen) \o Ellipsis
    ELSE body

\* body[:800] + "..." if len(body) > 800 else body, for a str body
DisplayBody(body) ==
    IF Len(body) > MaxBodyLen
    THEN SubSeq(body, 1, MaxBodyLen) \o Ellipsis
    ELSE body

\* the same expression on a value with a length: only a str can be cut
\* (a longer list plus "..." raises)
CanDisplay(body) == body.t = "str" \/ ~(PyLen(body) > MaxBodyLen)

RecordBody(body) == IF body.t = "str" THEN PyStr(DisplayBody(body.s)) ELSE body

\* the filter without its length test
BodyFilter_NoMinimum(body) ==
    IF ~PyTruthy(body) THEN "no"
    ELSE IF body \in {PyStr(DeletedBody), PyStr(RemovedBody)} THEN "no"
    ELSE IF ~HasLen(body) THEN "TypeError"
    ELSE "yes"

\* body and body not in ["[deleted]", "[removed]"] and len(body) > 30:
\* "yes", "no", or "TypeError" when a truthy body has no length
BodyFilter(body) ==
    IF ~PyTruthy(body) THEN "no"
    ELSE IF body \in {PyStr(DeletedBody), PyStr(RemovedBody)} THEN "no"
    ELSE IF ~HasLen(body) THEN "TypeError"
    ELSE IF PyLen(body) > MinBodyLen THEN "yes" ELSE "no"

\* the break test off by one: one record too many is collected
LoopBreaks_OffByOne(collected, max) == Len(collected) > max

\* if len(comments) >= max_comments: break
LoopBreaks(collected, max) == Len(collected) >= max

\* the for loop over comments_data, from entry i on
RECURSIVE CommentLoop(_, _, _, _)
CommentLoop(comments_data, i, collected, max) ==
    IF i > Len(comments_data) THEN Return(collected)
    ELSE LET comment == comments_data[i] IN
    CASE PyContains(KData, comment) = "TypeError" -> Raise("Exception", TxtType)
      [] PyContains(KData, comment) = "no" ->
            CommentLoop(comments_data, i + 1, collected, max)
      [] OTHER ->
         IF ~CanIndex(comment, KData) THEN Raise("Exception", TxtType)
         ELSE LET comment_data == comment.d[KData] IN
         IF comment_data.t # "dict" THEN Raise("Exception", TxtType)
         ELSE LET body == PyGet(comment_data, KBody, PyStr(<<>>))
                  author == PyGet(comment_data, KAuthor, PyStr(UnknownAuthor))
                  score == PyGet(comment_data, KScore, PyNum(DefaultScore))
                  skip == IF LoopBreaks(collected, max) THEN Return(collected)
                          ELSE CommentLoop(comments_data, i + 1, collected, max)
              IN
              CASE BodyFilter(body) = "TypeError" -> Raise("Exception", TxtType)
                [] BodyFilter(body) = "no" -> skip
                [] OTHER ->
                   IF ~CanDisplay(body) THEN Raise("Exception", TxtType)
                   ELSE LET grown == Append(collected,
                                        [t |-> "rec", author |-> author,
                                         body |-> RecordBody(body),
                                         score |-> score])
                        IN  IF LoopBreaks(grown, max) THEN Return(grown)
                            ELSE CommentLoop(comments_data, i + 1, grown, max)

\* lines 153-189: the structure checks and the loop, on the decoded data
ExtractFromData(data, max) ==
    IF data.t # "list" \/ Len(data.items) < 2
    THEN Return(<<PyStr(MsgBadFormat)>>)
    ELSE LET second == data.items[2] IN
    CASE PyContains(KData, second) = "TypeError" -> Raise("Exception", TxtType)
      [] PyContains(KData, second) = "no" -> Return(<<PyStr(MsgBadThread)>>)
      [] OTHER ->
         IF ~CanIndex(second, KData) THEN Raise("Exception", TxtType)
         ELSE LET inner == second.d[KData] IN
         CASE PyContains(KChildren, inner) = "TypeError" ->
                  Raise("Exception", TxtType)
           [] PyContains(KChildren, inner) = "no" ->
                  Return(<<PyStr(MsgBadThread)>>)
           [] OTHER ->
              IF ~CanIndex(inner, KChildren) THEN Raise("Exception", TxtType)
              ELSE LET comments_data == inner.d[KChildren] IN
                   IF ~CanIter(comments_data) THEN Raise("Exception", TxtType)
                   ELSE CommentLoop(PyIter(comments_data), 1, <<>>, max)

\* lines 144-147: requests.get, raise_for_status, response.json
TryBody(resp, max) ==
    IF resp.transport = "fail" THEN Raise("RequestException", resp.text)
    ELSE IF resp.status >= 400 THEN Raise("RequestException", TxtStatus)
    ELSE IF ~resp.parsed THEN Raise(resp.errclass, resp.text)
    ELSE ExtractFromData(resp.data, max)

\* the except clauses with a catch-all that returns an empty list
Handler_Swallows(url, outcome) ==
    CASE outcome.exc = "RequestException" ->
            <<PyStr(MsgNetwork \o url \o ColonSpace \o outcome.text)>>
      [] outcome.exc = "JSONDecodeError" ->
            <<PyStr(MsgJson \o outcome.text)>>
      [] OTHER -> <<>>

\* lines 191-205: the except clauses, in order
Handler(url, outcome) ==
    CASE outcome.exc = "RequestException" ->
            <<PyStr(MsgNetwork \o url \o ColonSpace \o outcome.text)>>
      [] outcome.exc = "JSONDecodeError" ->
            <<PyStr(MsgJson \o outcome.text)>>
      [] OTHER -> <<PyStr(MsgUnexpected \o outcome.text)>>

extract_comments(url, resp, max) ==
    LET outcome == TryBody(resp, max)
    IN  IF outcome.exc = "none" THEN outcome.value ELSE Handler(url, outcome)

(***************************************************************************)
(* display_comments: what the renderer does with the list it is given.     *)
(* notice is the one st.write / st.error / st.warning of the early         *)
(* returns, rendered the records shown in expanders.                       *)
(***************************************************************************)
IsErrorMessage(given) ==
    /\ Len(given) = 1
    /\ given[1].t = "str"
    /\ Contains(ErrorWord, Lower(given[1].s))

IsRecord(c) == c.t = "rec"

display_comments(given) ==
    IF Len(given) = 0
    THEN [notice |-> "no_comments", text |-> <<>>, rendered |-> <<>>]
    ELSE IF IsErrorMessage(given)
    THEN [notice |-> "error", text |-> given[1].s, rendered |-> <<>>]
    ELSE LET valid_comments == SelectSeq(given, IsRecord) IN
         IF Len(valid_comments) = 0
         THEN [notice |-> "no_valid_comments", text |-> <<>>, rendered |-> <<>>]
         ELSE [notice |-> "none", text |-> <<>>, rendered |-> valid_comments]

(***************************************************************************)
(* Thread fetches the extractor is run on.                                 *)
(***************************************************************************)
AuthorAnn == <<"a", "n", "n">>

Entry(fields) == PyDict(KData :> PyDict(fields))

FullEntry(body) ==
    Entry((KBody :> PyStr(body)) @@ (KAuthor :> PyStr(AuthorAnn))
          @@ (KScore :> PyNum(5)))

\* entries the loop walks without raising
PlainEntries ==
    { PyDict(KKind :> PyStr(<<"m">>)),
      FullEntry(Chars(MinBodyLen + 1, "a")),
      FullEntry(Chars(MinBodyLen, "b")),
      FullEntry(Chars(MinBodyLen - 1, "e")),
      FullEntry(DeletedBody),
      Entry(KBody :> PyStr(RemovedBody)),
      FullEntry(Chars(MaxBodyLen, "c")),
      Entry(KBody :> PyStr(Chars(MaxBodyLen + 1, "d"))),
      Entry(KAuthor :> PyStr(AuthorAnn)),
      FullEntry(<<>>) }

\* entries of an unexpected type
OddEntries ==
    { PyStr(<<"j">>), PyNum(3), PyDict(KData :> PyNum(3)),
      Entry(KBody :> PyNum(3)) }

Thread(children) ==
    PyList(<<EmptyDict, PyDict(KData :> PyDict(KChildren :> children))>>)

\* decoded data that is no two-element list with data.children
Misshapen ==
    { EmptyDict, PyNone, PyList(<<>>), PyList(<<EmptyDict>>),
      PyList(<<EmptyDict, EmptyDict>>),
      PyList(<<EmptyDict, PyDict(KData :> EmptyDict)>>),
      PyList(<<EmptyDict, PyDict(KKind :> PyStr(<<"t">>))>>) }

\* decoded data holding an element of an unexpected type
OddTyped ==
    { PyList(<<EmptyDict, PyNum(3)>>),
      PyList(<<EmptyDict, PyNone>>),
      PyList(<<EmptyDict, PyStr(KData)>>),
      PyList(<<EmptyDict, PyStr(<<"x">>)>>),
      PyList(<<EmptyDict, PyDict(KData :> PyNum(3))>>),
      PyList(<<EmptyDict, PyDict(KData :> PyStr(KChildren))>>),
      Thread(PyNone), Thread(PyNum(3)), Thread(PyStr(<<"a", "b">>)),
      Thread(EmptyDict), Thread(PyDict(KData :> PyNone)) }

Parsed(data) == [transport |-> "ok", status |-> 200, parsed |-> TRUE, data |-> data]

Failures ==
    { [transport |-> "fail", text |-> TxtTimeout],
      [transport |-> "ok", status |-> 404, parsed |-> TRUE, data |-> PyNone] }
    \cup { [transport |-> "ok", status |-> 200, parsed |-> FALSE,
            errclass |-> c, text |-> TxtDecode] :
           c \in {"RequestException", "JSONDecodeError", "ValueError"} }

Responses(entries, n) ==
    Failures
    \cup { Parsed(d) : d \in Misshapen \cup OddTyped }
    \cup { Parsed(Thread(PyList(c))) : c \in SeqsUpTo(entries, n) }

(***************************************************************************)
(* The extractor on its own: one call of extract_comments per behaviour,   *)
(* on the thread reddit_urls[1].                                           *)
(***************************************************************************)
InitExtract ==
    /\ pc = "extract"
    /\ book_name = TitleA
    /\ provider = NoCall
    /\ reddit_urls = <<[url |-> ThreadLink, title |-> PyStr(TitleA)]>>
    /\ notices = <<>>
    /\ idx = 1
    /\ response \in Responses(PlainEntries \cup OddEntries, MaxChildren)
    /\ max_comments \in 1..MaxWant
    /\ comments = <<>>
    /\ calls = <<>>
    /\ shown = <<>>

Extract ==
    /\ pc = "extract"
    /\ pc' = "extracted"
    /\ comments' = extract_comments(reddit_urls[idx].url, response, max_comments)
    /\ UNCHANGED <<book_name, provider, reddit_urls, notices, idx, response, max_comments,
                   calls, shown>>

Display ==
    /\ pc = "extracted"
    /\ pc' = "displayed"
    /\ shown' = Append(shown, display_comments(comments))
    /\ UNCHANGED <<book_name, provider, reddit_urls, notices, idx, response, max_comments,
                   comments, calls>>

NextExtract == Extract \/ Display

SpecExtract == InitExtract /\ [][NextExtract]_vars

(***************************************************************************)
(* The main application logic (lines 234-258): one search, then for each   *)
(* descriptor in turn one fetch and one display.  calls logs the outbound  *)
(* calls as they start and return, shown what display_comments rendered    *)
(* for each thread.                                                        *)
(***************************************************************************)
MainResults == ThreadResults \cup { SearchResult(PyStr(HomeLink), TitleA) }

MainResponses ==
    { [transport |-> "fail", text |-> TxtTimeout],
      [transport |-> "ok", status |-> 404, parsed |-> TRUE, data |-> PyNone],
      Parsed(PyList(<<EmptyDict>>)),
      Parsed(Thread(PyList(<<>>))),
      Parsed(Thread(PyList(<<FullEntry(Chars(MinBodyLen + 1, "a"))>>))) }

InitMain ==
    /\ pc = "start"
    /\ book_name \in {<<>>, TitleA}
    /\ provider = NoCall
    /\ reddit_urls = <<>>
    /\ notices = <<>>
    /\ idx = 0
    /\ response = NoResponse
    /\ max_comments = DefaultMaxComments
    /\ comments = <<>>
    /\ calls = <<>>
    /\ shown = <<>>

\* if book_name: (false)
MainSkip ==
    /\ pc = "start"
    /\ book_name = <<>>
    /\ pc' = "done"
    /\ UNCHANGED <<book_name, provider, reddit_urls, notices, idx, response,
                   max_comments, comments, calls, shown>>

\* reddit_urls = get_reddit_urls(book_name, max_results=5)
MainSearch ==
    /\ pc = "start"
    /\ book_name # <<>>
    /\ \E call \in ProviderCalls(MainResults, MaxThreads) :
          /\ provider' = call
          /\ reddit_urls' = get_reddit_urls(call).urls
          /\ notices' = IF get_reddit_urls(call).notice = "none" THEN notices
                        ELSE Append(notices, get_reddit_urls(call).notice)
    /\ calls' = Append(calls, [op |-> "search", thread |-> 0, url |-> <<>>])
    /\ pc' = "searched"
    /\ UNCHANGED <<book_name, idx, response, max_comments, comments, shown>>

\* if not reddit_urls: st.warning(...)
MainNoThreads ==
    /\ pc = "searched"
    /\ reddit_urls = <<>>
    /\ notices' = Append(notices, "no_threads")
    /\ pc' = "done"
    /\ UNCHANGED <<book_name, provider, reddit_urls, idx, response,
                   max_comments, comments, calls, shown>>

\* else: st.success(...); the for loop starts at the first descriptor
MainFound ==
    /\ pc = "searched"
    /\ reddit_urls # <<>>
    /\ notices' = Append(notices, "found")
    /\ idx' = 1
    /\ pc' = "loop"
    /\ UNCHANGED <<book_name, provider, reddit_urls, response, max_comments,
                   comments, calls, shown>>

\* comments = extract_comments(url_data['url']): the call goes out
MainFetch ==
    /\ pc = "loop"
    /\ idx <= Len(reddit_urls)
    /\ calls' = Append(calls, [op |-> "fetch", thread |-> idx,
                               url |-> reddit_urls[idx].url \o JsonSuffix])
    /\ pc' = "fetching"
    /\ UNCHANGED <<book_name, provider, reddit_urls, notices, idx, response,
                   max_comments, comments, shown>>

\* ... and returns its list
MainFetched ==
    /\ pc = "fetching"
    /\ \E r \in MainResponses :
          /\ response' = r
          /\ comments' = extract_comments(reddit_urls[idx].url, r, max_comments)
    /\ calls' = Append(calls, [op |-> "return", thread |-> idx,
                               url |-> reddit_urls[idx].url \o JsonSuffix])
    /\ pc' = "fetched"
    /\ UNCHANGED <<book_name, provider, reddit_urls, notices, idx,
                   max_comments, shown>>

\* the loop abandoned after a thread whose fetch returned a diagnostic
MainDisplay_StopsOnDiagnostic ==
    /\ pc = "fetched"
    /\ shown' = Append(shown, display_comments(comments))
    /\ idx' = IF Len(comments) = 1 /\ comments[1].t = "str"
              THEN Len(reddit_urls) + 1
              ELSE idx + 1
    /\ pc' = "loop"
    /\ UNCHANGED <<book_name, provider, reddit_urls, notices, response,
                   max_comments, comments, calls>>

\* display_comments(comments, ...), then the next descriptor
MainDisplay ==
    /\ pc = "fetched"
    /\ shown' = Append(shown, display_comments(comments))
    /\ idx' = idx + 1
    /\ pc' = "loop"
    /\ UNCHANGED <<book_name, provider, reddit_urls, notices, response,
                   max_comments, comments, calls>>

\* the for loop is exhausted
MainDone ==
    /\ pc = "loop"
    /\ idx > Len(reddit_urls)
    /\ pc' = "done"
    /\ UNCHANGED <<book_name, provider, reddit_urls, notices, idx, response,
                   max_comments, comments, calls, shown>>

NextMain ==
    \/ MainSkip
    \/ MainSearch
    \/ MainNoThreads
    \/ MainFound
    \/ MainFetch
    \/ MainFetched
    \/ MainDisplay
    \/ MainDone

SpecMain == InitMain /\ [][NextMain]_vars

Spec == SpecMain

(***************************************************************************)
(* Properties of the locator, under SpecLocate.                            *)
(***************************************************************************)
Located == pc = "located"

ErrorField == ~provider.raises /\ KError \in DOMAIN provider.results.d

OrganicOf(call) == PyGet(call.results, KOrganic, PyList(<<>>)).items

IsThreadLink(r) ==
    /\ KLink \in DOMAIN r.d
    /\ r.d[KLink].t = "str"
    /\ Contains(NamespaceMarker, r.d[KLink].s)
    /\ Contains(ThreadMarker, r.d[KLink].s)

\* C2: every descriptor returned by get_reddit_urls has a URL containing
\* "reddit.com/r/" and "/comments/" and neither a '?' nor a '#'.
C2_UrlsAreCanonicalThreads ==
    Located =>
        \A i \in 1..Len(reddit_urls) :
            /\ Contains(NamespaceMarker, reddit_urls[i].url)
            /\ Contains(ThreadMarker, reddit_urls[i].url)
            /\ ~Contains(<<"?">>, reddit_urls[i].url)
            /\ ~Contains(<<"#">>, reddit_urls[i].url)

\* C3: the descriptors returned by get_reddit_urls have pairwise distinct
\* URLs, also when two results canonicalize to the same URL.
C3_UrlsPairwiseDistinct ==
    Located =>
        \A i, j \in 1..Len(reddit_urls) :
            i # j => reddit_urls[i].url # reddit_urls[j].url

\* C8: when the provider payload holds an error field (whatever else it
\* holds) or the provider call raises, get_reddit_urls returns the empty
\* list and raises exactly one error notice, of the matching kind.
C8_ProviderFailureYieldsEmpty ==
    Located =>
        /\ provider.raises =>
               reddit_urls = <<>> /\ notices = <<"search_exception">>
        /\ ErrorField =>
               reddit_urls = <<>> /\ notices = <<"api_error">>

C8_Witness ==
    /\ Located
    /\ ErrorField
    /\ \E i \in 1..Len(OrganicOf(provider)) : IsThreadLink(OrganicOf(provider)[i])
    /\ reddit_urls = <<>>
    /\ notices = <<"api_error">>

(***************************************************************************)
(* Properties of the extractor and the renderer, under SpecExtract.        *)
(***************************************************************************)
Extracted == pc \in {"extracted", "displayed"}

Min(a, b) == IF a < b THEN a ELSE b

Fetched(resp) == resp.transport = "ok" /\ resp.status < 400 /\ resp.parsed

\* the two-element / data.children shape
ShapeOk(resp) ==
    /\ Fetched(resp)
    /\ resp.data.t = "list"
    /\ Len(resp.data.items) >= 2
    /\ resp.data.items[2].t = "dict"
    /\ KData \in DOMAIN resp.data.items[2].d
    /\ resp.data.items[2].d[KData].t = "dict"
    /\ KChildren \in DOMAIN resp.data.items[2].d[KData].d
    /\ resp.data.items[2].d[KData].d[KChildren].t = "list"

ChildrenOf(resp) == resp.data.items[2].d[KData].d[KChildren].items

\* an entry as the provider documents it: an object whose data, when
\* present, is an object whose body, when present, is text
EntryExpected(e) ==
    /\ e.t = "dict"
    /\ KData \in DOMAIN e.d =>
          /\ e.d[KData].t = "dict"
          /\ KBody \in DOMAIN e.d[KData].d => e.d[KData].d[KBody].t = "str"

WellShaped(resp) ==
    /\ ShapeOk(resp)
    /\ \A i \in 1..Len(ChildrenOf(resp)) : EntryExpected(ChildrenOf(resp)[i])

SourceBody(e) ==
    IF KData \in DOMAIN e.d /\ KBody \in DOMAIN e.d[KData].d
    THEN e.d[KData].d[KBody].s
    ELSE <<>>

PassesBodyFilter(e) ==
    /\ SourceBody(e) # <<>>
    /\ SourceBody(e) # DeletedBody
    /\ SourceBody(e) # RemovedBody
    /\ Len(SourceBody(e)) > MinBodyLen

Passing(resp) == SelectSeq(ChildrenOf(resp), PassesBodyFilter)

\* rec is the record of entry e: its author and score (or the defaults)
\* and its body up to the display length
FromEntry(rec, e) ==
    /\ rec.t = "rec"
    /\ rec.author = PyGet(e.d[KData], KAuthor, PyStr(UnknownAuthor))
    /\ rec.score = PyGet(e.d[KData], KScore, PyNum(DefaultScore))
    /\ rec.body.t = "str"
    /\ LET n == Min(Len(SourceBody(e)), MaxBodyLen)
       IN  /\ Len(rec.body.s) >= n
           /\ SubSeq(rec.body.s, 1, n) = SubSeq(SourceBody(e), 1, n)

\* C1: on a fetched payload of the expected shape, extract_comments returns
\* the records of the first max_comments entries that pass the body filter,
\* in the source's order, and of all passing entries when there are fewer;
\* so never more than max_comments records.
C1_FirstPassingInOrder ==
    (Extracted /\ WellShaped(response)) =>
        LET want == Passing(response)
            n == Min(Len(want), max_comments)
        IN  /\ Len(comments) = n
            /\ Len(comments) <= max_comments
            /\ \A i \in 1..n : FromEntry(comments[i], want[i])

C1_Witness ==
    /\ Extracted
    /\ WellShaped(response)
    /\ Len(Passing(response)) > max_comments
    /\ Len(comments) = max_comments
    /\ Passing(response)[1] # Passing(response)[2]

\* C4: every record returned has a non-empty body that is neither
\* "[deleted]" nor "[removed]", and comes from an entry whose body is
\* present, non-empty, no sentinel and not shorter than 30 characters.
C4_NoFilteredBody ==
    Extracted =>
        \A i \in 1..Len(comments) :
            comments[i].t = "rec" =>
                /\ comments[i].body.t = "str"
                /\ Len(comments[i].body.s) > 0
                /\ comments[i].body.s \notin {DeletedBody, RemovedBody}
                /\ ShapeOk(response)
                /\ \E j \in 1..Len(ChildrenOf(response)) :
                      LET e == ChildrenOf(response)[j] IN
                      /\ EntryExpected(e)
                      /\ KData \in DOMAIN e.d
                      /\ KBody \in DOMAIN e.d[KData].d
                      /\ FromEntry(comments[i], e)
                      /\ Len(SourceBody(e)) >= MinBodyLen
                      /\ SourceBody(e) \notin {<<>>, DeletedBody, RemovedBody}

C4_Witness ==
    /\ Extracted
    /\ WellShaped(response)
    /\ \E j \in 1..Len(ChildrenOf(response)) :
          \/ SourceBody(ChildrenOf(response)[j]) \in {DeletedBody, RemovedBody}
          \/ Len(SourceBody(ChildrenOf(response)[j])) = MinBodyLen - 1
    /\ Len(comments) = 1
    /\ comments[1].t = "rec"

\* C5: the record of a passing entry whose body is longer than 800
\* characters holds the first 800 characters followed by "..."; the record
\* of one whose body is 800 characters or shorter holds the body unmodified.
C5_TruncateOverLimit ==
    (Extracted /\ WellShaped(response)) =>
        \A i \in 1..Len(comments) :
            /\ i <= Len(Passing(response))
            /\ LET b == SourceBody(Passing(response)[i]) IN
               /\ Len(b) > MaxBodyLen =>
                     comments[i].body = PyStr(SubSeq(b, 1, MaxBodyLen) \o Ellipsis)
               /\ Len(b) <= MaxBodyLen => comments[i].body = PyStr(b)

C5_Witness ==
    /\ Extracted
    /\ WellShaped(response)
    /\ \E i \in 1..Len(comments) :
          /\ Len(SourceBody(Passing(response)[i])) = MaxBodyLen
          /\ Len(comments[i].body.s) = MaxBodyLen
    /\ \E i \in 1..Len(comments) :
          /\ Len(SourceBody(Passing(response)[i])) = MaxBodyLen + 1
          /\ Len(comments[i].body.s) = MaxBodyLen + Len(Ellipsis)

\* the failure cases of a fetch: transport failure, non-success status,
\* undecodable body, a top level that is no list of two elements, a second
\* element that is no object or lacks data or data.children
FailureKind(resp) ==
    CASE resp.transport = "fail" -> "transport"
      [] resp.transport = "ok" /\ resp.status >= 400 -> "status"
      [] resp.transport = "ok" /\ resp.status < 400 /\ ~resp.parsed -> "unparseable"
      [] OTHER ->
            IF resp.data.t # "list" \/ Len(resp.data.items) < 2 THEN "shape"
            ELSE IF resp.data.items[2].t # "dict" THEN "type"
            ELSE IF KData \notin DOMAIN resp.data.items[2].d THEN "shape"
            ELSE IF resp.data.items[2].d[KData].t # "dict" THEN "type"
            ELSE IF KChildren \notin DOMAIN resp.data.items[2].d[KData].d
                 THEN "shape"
            ELSE "none"

IsDiagnostic(result) == Len(result) = 1 /\ result[1].t = "str"

HasPrefix(p, s) == Len(s) >= Len(p) /\ SubSeq(s, 1, Len(p)) = p

\* the kind of a diagnostic: the fixed text it is built from
DiagKind(result) ==
    CASE HasPrefix(MsgNetwork, result[1].s) -> "network"
      [] HasPrefix(MsgJson, result[1].s) -> "json"
      [] HasPrefix(MsgUnexpected, result[1].s) -> "unexpected"
      [] result[1].s \in {MsgBadFormat, MsgBadThread} -> "format"
      [] OTHER -> "other"

FourKinds == {"transport", "status", "unparseable", "shape"}

FailedFetches == Failures \cup { Parsed(d) : d \in Misshapen }

\* C7: transport failure, non-success status, undecodable response and
\* missing nested shape yield diagnostics of four different kinds: the
\* diagnostic of a fetch that failed one way is of another kind than the
\* diagnostic of any fetch that failed another way.
C7_DistinctDiagnostics ==
    (Extracted /\ FailureKind(response) \in FourKinds) =>
        \A r \in FailedFetches :
            FailureKind(r) # FailureKind(response) =>
                DiagKind(extract_comments(reddit_urls[idx].url, r, max_comments))
                    # DiagKind(comments)

\* C10: display_comments shows only records as comments, and shows every
\* diagnostic-message result as an error notice carrying the diagnostic.
C10_DiagnosticShownAsError ==
    pc = "displayed" =>
        /\ \A i \in 1..Len(shown[Len(shown)].rendered) :
              shown[Len(shown)].rendered[i].t = "rec"
        /\ IsDiagnostic(comments) =>
              /\ shown[Len(shown)].notice = "error"
              /\ shown[Len(shown)].text = comments[1].s
              /\ shown[Len(shown)].rendered = <<>>

(***************************************************************************)
(* Properties of the main run, under SpecMain.                             *)
(***************************************************************************)
RECURSIVE FetchCalls(_, _)
FetchCalls(urls, i) ==
    IF i > Len(urls) THEN <<>>
    ELSE << [op |-> "fetch", thread |-> i, url |-> urls[i].url \o JsonSuffix],
            [op |-> "return", thread |-> i, url |-> urls[i].url \o JsonSuffix] >>
         \o FetchCalls(urls, i + 1)

ExpectedCalls(urls) ==
    <<[op |-> "search", thread |-> 0, url |-> <<>>]>> \o FetchCalls(urls, 1)

IsPrefix(p, q) == Len(p) <= Len(q) /\ SubSeq(q, 1, Len(p)) = p

\* C9: in a run for a non-empty title the outbound calls are one search,
\* then one fetch per descriptor in descriptor order, each returned before
\* the next starts and none repeated; the run goes on to the end whatever a
\* fetch returned, every thread is displayed, and no fetch is made when the
\* locator returned no descriptor.
C9_SequentialComplete ==
    book_name # <<>> =>
        /\ IsPrefix(calls, ExpectedCalls(reddit_urls))
        /\ pc # "start" => Len(calls) >= 1
        /\ pc = "fetching" => calls[Len(calls)].op = "fetch"
        /\ pc # "fetching" /\ Len(calls) > 1 => calls[Len(calls)].op = "return"
        /\ pc = "done" =>
              /\ calls = ExpectedCalls(reddit_urls)
              /\ Len(shown) = Len(reddit_urls)
        /\ pc # "done" => ENABLED NextMain

C9_Witness ==
    /\ pc = "done"
    /\ book_name # <<>>
    /\ Len(reddit_urls) = 2
    /\ Len(calls) = 5
    /\ shown[1].notice = "error"
    /\ Len(shown[2].rendered) = 1

=============================================================================
